---- MODULE Spec2Model ----
(***************************************************************************)
(* A model of spectagular: the struct tag grammar (tag_cache.go), the      *)
(* resolver tree (resolvers.go) and the StructTagCache built on them.      *)
(*                                                                         *)
(* Go strings are sequences of one-character strings.  The newline is not  *)
(* part of any modelled string (the `.` of keyValueRegex does not match    *)
(* it).  reflect.Value is a record [k |-> kind, ...]; a Go error is a      *)
(* record [kind |-> ..., keys |-> ...], the nil error having kind "nil".   *)
(***************************************************************************)
EXTENDS FiniteSets, Integers, Sequences, TLC

(***************************************************************************)
(* Strings                                                                 *)
(***************************************************************************)
EmptyTag == <<>>
SkipTag == <<"-">>
RequiredTag == <<"r", "e", "q", "u", "i", "r", "e", "d">>
NameTag == <<"$", "n", "a", "m", "e">>

Quote == "'"
Backslash == "\\"
Comma == ","
OpenBracket == "["
CloseBracket == "]"
Equals == "="

UpperCase == <<"A", "B", "C", "D", "E", "F", "G", "H", "I", "J", "K", "L", "M",
               "N", "O", "P", "Q", "R", "S", "T", "U", "V", "W", "X", "Y", "Z">>
LowerCase == <<"a", "b", "c", "d", "e", "f", "g", "h", "i", "j", "k", "l", "m",
               "n", "o", "p", "q", "r", "s", "t", "u", "v", "w", "x", "y", "z">>
Digits == <<"0", "1", "2", "3", "4", "5", "6", "7", "8", "9">>

Range(seq) == {seq[i] : i \in DOMAIN seq}

\* The class \w of Go's regexp: [0-9A-Za-z_].
WordChars == Range(UpperCase) \cup Range(LowerCase) \cup Range(Digits) \cup {"_"}

\* s[from:to] of Go, with 0-based, half-open bounds.
Slice(s, from, to) == SubSeq(s, from + 1, to)

\* s[from:] of Go.
SliceFrom(s, from) == SubSeq(s, from + 1, Len(s))

\* The 0-based index of the first c in s, or -1.
IndexOf(s, c) ==
    IF \E i \in DOMAIN s : s[i] = c
    THEN (CHOOSE i \in DOMAIN s : s[i] = c /\ \A j \in 1..(i - 1) : s[j] # c) - 1
    ELSE -1

\* strings.ToLower, on the ASCII letters.
ToLowerChar(c) ==
    IF \E i \in DOMAIN UpperCase : UpperCase[i] = c
    THEN LowerCase[CHOOSE i \in DOMAIN UpperCase : UpperCase[i] = c]
    ELSE c

ToLower(s) == [i \in DOMAIN s |-> ToLowerChar(s[i])]

\* strings.Split(s, ","): the pieces between the commas, at least one piece.
RECURSIVE Split(_)
Split(s) ==
    LET i == IndexOf(s, Comma)
    IN  IF i < 0 THEN <<s>> ELSE <<Slice(s, 0, i)>> \o Split(SliceFrom(s, i + 1))

\* strings.Replace(s, `\'`, `'`, -1): leftmost, non-overlapping.
RECURSIVE ReplaceEscapedQuote(_)
ReplaceEscapedQuote(s) ==
    IF Len(s) = 0 THEN <<>>
    ELSE IF Len(s) >= 2 /\ s[1] = Backslash /\ s[2] = Quote
         THEN <<Quote>> \o ReplaceEscapedQuote(SliceFrom(s, 2))
         ELSE <<s[1]>> \o ReplaceEscapedQuote(SliceFrom(s, 1))

(***************************************************************************)
(* The regular expressions of tag_cache.go.  Each returns the submatch     *)
(* indexes FindStringSubmatchIndex gives (0-based, -1 for a group that     *)
(* took no part), or NoMatch.                                              *)
(***************************************************************************)
NoMatch == [matched |-> FALSE]

\* The length of the longest prefix of s made of word characters.
RECURSIVE WordPrefixLen(_)
WordPrefixLen(s) ==
    IF Len(s) > 0 /\ s[1] \in WordChars THEN 1 + WordPrefixLen(Tail(s)) ELSE 0

\* ^(?:(\w+)=)?(.+)
keyValueRegex(tag) ==
    LET k == WordPrefixLen(tag)
    IN  IF Len(tag) = 0 THEN NoMatch
        ELSE IF k >= 1 /\ Len(tag) >= k + 2 /\ tag[k + 1] = Equals
             THEN [matched |-> TRUE, keyStart |-> 0, keyEnd |-> k,
                   valueStart |-> k + 1, valueEnd |-> Len(tag)]
             ELSE [matched |-> TRUE, keyStart |-> -1, keyEnd |-> -1,
                   valueStart |-> 0, valueEnd |-> Len(tag)]

\* ^([^,]*) : the comma after the group is left in the text.
untilNextCommaKept(tag) ==
    LET i == IndexOf(tag, Comma)
    IN  IF i < 0
        THEN [matched |-> TRUE, groupStart |-> 0, groupEnd |-> Len(tag), end |-> Len(tag)]
        ELSE [matched |-> TRUE, groupStart |-> 0, groupEnd |-> i, end |-> i]

\* ^([^,]*),?
untilNextCommaRegex(tag) ==
    LET i == IndexOf(tag, Comma)
    IN  IF i < 0
        THEN [matched |-> TRUE, groupStart |-> 0, groupEnd |-> Len(tag), end |-> Len(tag)]
        ELSE [matched |-> TRUE, groupStart |-> 0, groupEnd |-> i, end |-> i + 1]

\* ^([^c]*)c for the delimiter c: untilNextQuoteRegex and untilNextBracketRegex.
UntilNextDelimiter(tag, c) ==
    LET i == IndexOf(tag, c)
    IN  IF i < 0 THEN NoMatch
        ELSE [matched |-> TRUE, groupStart |-> 0, groupEnd |-> i, end |-> i + 1]

untilNextQuoteRegex(tag) == UntilNextDelimiter(tag, Quote)

untilNextBracketRegex(tag) == UntilNextDelimiter(tag, CloseBracket)

(***************************************************************************)
(* Errors                                                                  *)
(***************************************************************************)
NilError == [kind |-> "nil", keys |-> {}]
MissingEndQuote == [kind |-> "missing end quote on quoted string", keys |-> {}]
ConversionError == [kind |-> "conversion", keys |-> {}]
NonStructError == [kind |-> "FieldTagCache cannot cache non struct types", keys |-> {}]
CannotConvertError == [kind |-> "unable to convert value", keys |-> {}]
MissingRequired(keys) == [kind |-> "missing required tag fields", keys |-> keys]

(***************************************************************************)
(* The scanning loop shared by the quoted values of getNextTagValue and    *)
(* the bracketed values of Add: the text up to the next delimiter c is     *)
(* appended to valueStr; a delimiter right after a backslash is a literal  *)
(* one and the scan goes on, any other ends the value.                     *)
(***************************************************************************)
RECURSIVE ScanDelimited(_, _, _)
ScanDelimited(tag, valueStr, c) ==
    LET kv == UntilNextDelimiter(tag, c)
    IN  IF ~kv.matched
        THEN [tag |-> <<>>, valueStr |-> <<>>, err |-> MissingEndQuote]
        ELSE LET group == Slice(tag, kv.groupStart, kv.groupEnd)
                 acc == valueStr \o group
             IN  IF kv.groupEnd > 0 /\ kv.groupEnd > kv.groupStart
                    /\ tag[(kv.groupEnd - 1) + 1] = Backslash
                 THEN ScanDelimited(SliceFrom(tag, kv.end),
                                    SubSeq(acc, 1, Len(acc) - 1) \o <<c>>, c)
                 ELSE [tag |-> SliceFrom(tag, kv.end), valueStr |-> acc, err |-> NilError]

getNextTagValue(tag) ==
    IF tag # EmptyTag /\ tag[1] = Quote
    THEN ScanDelimited(SliceFrom(tag, 1), <<>>, Quote)
    ELSE LET kv == untilNextCommaRegex(tag)
         IN  [tag |-> SliceFrom(tag, kv.end),
              valueStr |-> ReplaceEscapedQuote(Slice(tag, kv.groupStart, kv.groupEnd)),
              err |-> NilError]

(***************************************************************************)
(* reflect.Type, as far as the package reads it: the kind, the element     *)
(* type of a slice, pointer or array (a sequence of zero or one types) and *)
(* the name of a named type.  A struct type names its declaration.         *)
(***************************************************************************)
BasicType(kind) == [Kind |-> kind, Elem |-> <<>>, Name |-> ""]
NamedType(kind, name) == [Kind |-> kind, Elem |-> <<>>, Name |-> name]
SliceOf(t) == [Kind |-> "slice", Elem |-> <<t>>, Name |-> ""]
PointerTo(t) == [Kind |-> "ptr", Elem |-> <<t>>, Name |-> ""]
ArrayOf(t) == [Kind |-> "array", Elem |-> <<t>>, Name |-> ""]
StructType(name) == [Kind |-> "struct", Elem |-> <<>>, Name |-> name]

StringType == BasicType("string")
BoolType == BasicType("bool")
IntType == BasicType("int")
Int8Type == BasicType("int8")
DurationType == NamedType("int64", "time.Duration")
\* The CustomType of tag_cache_test.go, which has an UnmarshalTagOption method.
CustomType == StructType("CustomType")

\* fType.Implements(the StructTagOptionUnmarshaler interface type)
Implements(fType) == fType = CustomType

(***************************************************************************)
(* reflect.Value                                                           *)
(***************************************************************************)
StringValue(s) == [k |-> "string", v |-> s]
BoolValue(b) == [k |-> "bool", v |-> b]
IntValue(kind, n) == [k |-> kind, v |-> n]
PointerValue(val) == [k |-> "ptr", v |-> <<val>>]
NilPointer == [k |-> "ptr", v |-> <<>>]
SliceValue(elems) == [k |-> "slice", nil |-> FALSE, v |-> elems]
NilSlice == [k |-> "slice", nil |-> TRUE, v |-> <<>>]
CustomValue(s) == [k |-> "CustomType", v |-> s]
\* reflect.ValueOf(nil)
InvalidValue == [k |-> "invalid"]

IntKinds == {"int", "int8", "int16", "int32", "int64"}
UintKinds == {"uint", "uint8", "uint16", "uint32", "uint64"}

\* The zero value of a type: what new(T) holds in each field.
ZeroValue(fType) ==
    IF fType = CustomType THEN CustomValue(<<>>)
    ELSE IF fType.Kind = "string" THEN StringValue(<<>>)
    ELSE IF fType.Kind = "bool" THEN BoolValue(FALSE)
    ELSE IF fType.Kind = "ptr" THEN NilPointer
    ELSE IF fType.Kind = "slice" THEN NilSlice
    ELSE IF fType.Kind \in IntKinds \cup UintKinds THEN IntValue(fType.Kind, 0)
    ELSE InvalidValue

(***************************************************************************)
(* strconv and time, as convertToValue and durationResolver call them.     *)
(***************************************************************************)
\* The spellings strconv.ParseBool accepts.
TrueSpellings == {<<"1">>, <<"t">>, <<"T">>, <<"T", "R", "U", "E">>,
                  <<"t", "r", "u", "e">>, <<"T", "r", "u", "e">>}
FalseSpellings == {<<"0">>, <<"f">>, <<"F">>, <<"F", "A", "L", "S", "E">>,
                   <<"f", "a", "l", "s", "e">>, <<"F", "a", "l", "s", "e">>}

ParseBool(value) ==
    IF value \in TrueSpellings THEN [v |-> TRUE, err |-> NilError]
    ELSE IF value \in FalseSpellings THEN [v |-> FALSE, err |-> NilError]
    ELSE [v |-> FALSE, err |-> ConversionError]

DigitValue(c) == (CHOOSE i \in DOMAIN Digits : Digits[i] = c) - 1

IsDigits(s) == Len(s) > 0 /\ \A i \in DOMAIN s : s[i] \in Range(Digits)

RECURSIVE DecimalValue(_)
DecimalValue(s) ==
    IF Len(s) = 0 THEN 0
    ELSE 10 * DecimalValue(SubSeq(s, 1, Len(s) - 1)) + DigitValue(s[Len(s)])

\* The longest literal whose value is computed; a longer one is out of the
\* range of every width the model instantiates (8, 16 and 32 bits, and the
\* 64-bit kinds on texts of at most this many digits).
MaxDigits == 9

BitSize(kind) ==
    IF kind \in {"int8", "uint8"} THEN 8
    ELSE IF kind \in {"int16", "uint16"} THEN 16
    ELSE IF kind \in {"int32", "uint32"} THEN 32
    ELSE 64

Pow2(n) == IF n >= 31 THEN 2147483647 ELSE 2 ^ n

\* strconv.ParseInt(value, 10, bitSize): an optional sign, decimal digits, and
\* the range of the width.
ParseInt(value, bitSize) ==
    LET signed == Len(value) > 0 /\ value[1] \in {"+", "-"}
        digits == IF signed THEN Tail(value) ELSE value
        neg == signed /\ value[1] = "-"
    IN  IF ~IsDigits(digits) \/ Len(digits) > MaxDigits
        THEN [v |-> 0, err |-> ConversionError]
        ELSE LET n == DecimalValue(digits)
                 limit == Pow2(bitSize - 1)
             IN  IF (neg /\ (bitSize >= 32 \/ n <= limit))
                    \/ (~neg /\ (bitSize >= 32 \/ n <= limit - 1))
                 THEN [v |-> IF neg THEN -n ELSE n, err |-> NilError]
                 ELSE [v |-> 0, err |-> ConversionError]

\* strconv.ParseUint(value, 10, bitSize): decimal digits only, no sign.
ParseUint(value, bitSize) ==
    IF ~IsDigits(value) \/ Len(value) > MaxDigits
    THEN [v |-> 0, err |-> ConversionError]
    ELSE LET n == DecimalValue(value)
         IN  IF bitSize >= 32 \/ n <= Pow2(bitSize) - 1
             THEN [v |-> n, err |-> NilError]
             ELSE [v |-> 0, err |-> ConversionError]

\* time.ParseDuration on the texts the model writes: "0", or decimal
\* magnitudes each followed by one of the units h, m, s; the value in seconds.
DurationUnits == {"h", "m", "s"}
UnitSeconds(u) == IF u = "h" THEN 3600 ELSE IF u = "m" THEN 60 ELSE 1

RECURSIVE ParseDurationGroups(_)
ParseDurationGroups(s) ==
    IF Len(s) = 0 THEN [v |-> 0, err |-> NilError]
    ELSE LET n == IF \E i \in DOMAIN s : s[i] \notin Range(Digits)
                  THEN (CHOOSE i \in DOMAIN s : s[i] \notin Range(Digits)
                            /\ \A j \in 1..(i - 1) : s[j] \in Range(Digits)) - 1
                  ELSE Len(s)
         IN  IF n = 0 \/ n > MaxDigits \/ n = Len(s) \/ s[n + 1] \notin DurationUnits
             THEN [v |-> 0, err |-> ConversionError]
             ELSE LET rest == ParseDurationGroups(SliceFrom(s, n + 1))
                  IN  IF rest.err # NilError THEN rest
                      ELSE [v |-> DecimalValue(Slice(s, 0, n)) * UnitSeconds(s[n + 1])
                                    + rest.v,
                            err |-> NilError]

ParseDuration(value) ==
    IF value = <<"0">> THEN [v |-> 0, err |-> NilError]
    ELSE IF Len(value) = 0 THEN [v |-> 0, err |-> ConversionError]
    ELSE ParseDurationGroups(value)

\* convertToValue, for the kinds the model instantiates (no float or complex
\* option is declared in any option shape of the model).
convertToValue(value, kind) ==
    IF kind = "bool"
    THEN LET r == ParseBool(value) IN [v |-> BoolValue(r.v), err |-> r.err]
    ELSE IF kind = "string"
    THEN [v |-> StringValue(value), err |-> NilError]
    ELSE IF kind \in IntKinds
    THEN LET r == ParseInt(value, BitSize(kind)) IN [v |-> IntValue(kind, r.v), err |-> r.err]
    ELSE IF kind \in UintKinds
    THEN LET r == ParseUint(value, BitSize(kind)) IN [v |-> IntValue(kind, r.v), err |-> r.err]
    ELSE [v |-> InvalidValue, err |-> ConversionError]

(***************************************************************************)
(* The resolver tree of resolvers.go.  A resolver is a record naming its   *)
(* struct type in `res` and holding that struct's fields.                  *)
(***************************************************************************)
RECURSIVE getResolver(_, _)
getResolver(fType, name) ==
    IF name = NameTag
    THEN [res |-> "nameResolver", resolver |-> getResolver(fType, <<>>)]
    ELSE IF Implements(fType)
    THEN [res |-> "custom"]
    ELSE IF fType = DurationType
    THEN [res |-> "durationResolver"]
    ELSE IF fType.Kind = "slice"
    THEN [res |-> "sliceResolver", resolver |-> getResolver(fType.Elem[1], name),
          underlyingType |-> fType.Elem[1]]
    ELSE IF fType.Kind = "ptr"
    THEN [res |-> "pointerResolver", resolver |-> getResolver(fType.Elem[1], name),
          underlyingType |-> fType]
    ELSE IF fType.Kind = "bool"
    THEN [res |-> "boolResolver", key |-> name]
    ELSE [res |-> "defaultResolver", kind |-> fType.Kind]

\* A boolResolver that parses every value, its own key included.
boolResolverParsesKey(key, value) == convertToValue(value, "bool")

\* boolResolver.UnmarshalTagOption: the key standing for its own value is true.
boolResolver(key, value) ==
    IF value = key
    THEN [v |-> BoolValue(TRUE), err |-> NilError]
    ELSE convertToValue(value, "bool")

\* sliceResolver.UnmarshalTagOption up to its loop: a leading and a trailing
\* comma are doubled, so that the empty element beside them is kept.
SlicePrepare(tag) ==
    LET a == IF Len(tag) > 0 /\ tag[1] = Comma THEN <<Comma>> \o tag ELSE tag
    IN  IF Len(a) > 0 /\ a[Len(a)] = Comma THEN a \o <<Comma>> ELSE a

RECURSIVE UnmarshalTagOption(_, _, _)
RECURSIVE SliceLoop(_, _, _, _)

\* The loop of sliceResolver.UnmarshalTagOption: `value` holds the elements
\* appended so far.
SliceLoop(s, field, tag, value) ==
    IF tag = EmptyTag THEN [v |-> SliceValue(value), err |-> NilError]
    ELSE LET t1 == IF tag[1] = Comma THEN SliceFrom(tag, 1) ELSE tag
             nxt == getNextTagValue(t1)
         IN  IF nxt.err # NilError THEN [v |-> InvalidValue, err |-> nxt.err]
             ELSE LET val == UnmarshalTagOption(s.resolver, field, nxt.valueStr)
                  IN  IF val.err # NilError THEN [v |-> InvalidValue, err |-> val.err]
                      ELSE SliceLoop(s, field, nxt.tag, Append(value, val.v))

\* The UnmarshalTagOption method of each resolver; `r` is the receiver.
UnmarshalTagOption(r, field, value) ==
    IF r.res = "nameResolver"
    THEN IF value = EmptyTag
         THEN UnmarshalTagOption(r.resolver, field, field.Name)
         ELSE UnmarshalTagOption(r.resolver, field, value)
    ELSE IF r.res = "boolResolver"
    THEN boolResolver(r.key, value)
    ELSE IF r.res = "pointerResolver"
    THEN LET inner == UnmarshalTagOption(r.resolver, field, value)
         IN  IF inner.err # NilError THEN [v |-> InvalidValue, err |-> inner.err]
             ELSE [v |-> PointerValue(inner.v), err |-> NilError]
    ELSE IF r.res = "sliceResolver"
    THEN SliceLoop(r, field, SlicePrepare(value), <<>>)
    ELSE IF r.res = "durationResolver"
    THEN LET d == ParseDuration(value) IN [v |-> IntValue("duration", d.v), err |-> d.err]
    ELSE IF r.res = "custom"
    THEN [v |-> CustomValue(value), err |-> NilError]
    ELSE convertToValue(value, r.kind)

(***************************************************************************)
(* Maps                                                                    *)
(***************************************************************************)
EmptyMap == [k \in {} |-> {}]

MapPut(m, key, val) == [k \in DOMAIN m \cup {key} |-> IF k = key THEN val ELSE m[k]]

(***************************************************************************)
(* NewFieldTagCache.  A struct declaration is a sequence of fields         *)
(* [Name, Tag, Type, PkgPath, Anonymous]: Tag is what field.Tag.Get gives  *)
(* for the tag name read (the empty string when the field has none) and    *)
(* PkgPath is empty for an exported field.                                 *)
(***************************************************************************)
UnsupportedKinds == {"slice", "array", "chan", "func", "interface", "invalid", "map",
                     "unsafe.Pointer"}

\* The kinds whose reflect.Type has an Elem; Elem panics on any other.
ElemKinds == {"array", "chan", "map", "ptr", "slice"}

\* The StructTagOption of one field of T: lines 151-163.
FieldOption(field, i) ==
    LET parts == Split(field.Tag) \o <<ToLower(field.Name)>>
    IN  [Name |-> IF parts[1] # SkipTag THEN parts[1] ELSE <<>>,
         Required |-> \E n \in 2..Len(parts) : parts[n] = RequiredTag,
         FieldIndex |-> i,
         Resolver |-> [res |-> "none"]]

\* A NewFieldTagCache that lets a later field take the key of an earlier one.
InUseNever(structTag, structTagMap) == FALSE

\* Line 183: the key of the field is a key of the map already.
InUse(structTag, structTagMap) == structTag.Name \in DOMAIN structTagMap

\* The loop over the fields of T, from field i (0-based) on.
RECURSIVE CompileFields(_, _, _)
CompileFields(fields, i, acc) ==
    IF i >= Len(fields) THEN acc
    ELSE LET field == fields[i + 1]
             structTag == FieldOption(field, i)
             fieldKind == IF field.Type.Kind = "slice" THEN field.Type.Elem[1].Kind
                          ELSE field.Type.Kind
         IN  IF field.PkgPath # "" /\ ~field.Anonymous
             THEN CompileFields(fields, i + 1, acc)
             ELSE IF structTag.Name = EmptyTag \/ structTag.Name = SkipTag
             THEN CompileFields(fields, i + 1, acc)
             ELSE IF fieldKind \in UnsupportedKinds /\ ~Implements(field.Type)
             THEN [acc EXCEPT !.status = "error", !.err = "unsupported type for struct tag"]
             ELSE IF InUse(structTag, acc.structTagMap)
             THEN [acc EXCEPT !.status = "error", !.err = "tag is in use by multiple fields"]
             ELSE CompileFields(fields, i + 1,
                    [acc EXCEPT
                       !.hasName = acc.hasName \/ structTag.Name = NameTag,
                       !.structTagMap = MapPut(acc.structTagMap, structTag.Name,
                           [structTag EXCEPT
                              !.Resolver = getResolver(field.Type, structTag.Name)]),
                       !.requiredTags = IF structTag.Required
                                        THEN Append(acc.requiredTags, structTag.Name)
                                        ELSE acc.requiredTags])

(***************************************************************************)
(* The option shapes (the type parameter T of the cache) the model builds  *)
(* caches for.  Keys are one letter long.                                  *)
(***************************************************************************)
OptionField(name, tag, type) ==
    [Name |-> name, Tag |-> tag, Type |-> type, PkgPath |-> "", Anonymous |-> FALSE]

\* Two required strings, a string and a list of strings; no name option.
Req2Shape == <<OptionField(<<"R">>, <<"r", ",">> \o RequiredTag, StringType),
               OptionField(<<"Q">>, <<"q", ",">> \o RequiredTag, StringType),
               OptionField(<<"S">>, <<"s">>, StringType),
               OptionField(<<"L">>, <<"l">>, SliceOf(StringType))>>

\* No required option: a string, a boolean, a list of strings, a pointer.
OptsShape == <<OptionField(<<"S">>, <<"s">>, StringType),
               OptionField(<<"B">>, <<"b">>, BoolType),
               OptionField(<<"L">>, <<"l">>, SliceOf(StringType)),
               OptionField(<<"P">>, <<"p">>, PointerTo(StringType))>>

\* A required boolean and a required list of strings.
ReqBShape == <<OptionField(<<"B">>, <<"b", ",">> \o RequiredTag, BoolType),
               OptionField(<<"L">>, <<"l", ",">> \o RequiredTag, SliceOf(StringType))>>

\* The JSONStructTag of the README: a name option and two booleans.
NamedShape == <<OptionField(<<"N", "a", "m", "e">>, NameTag, StringType),
                OptionField(<<"O">>, <<"o">>, BoolType),
                OptionField(<<"G">>, <<"g">>, BoolType)>>

OptionShapeNames == {"Req2", "Opts", "ReqB", "Named"}

\* A struct type without an UnmarshalTagOption method (time.Time is one).
InnerType == StructType("Inner")

\* The Bad of TestNewTagCacheInvalid: two fields with the key `name`.
DupShape == <<OptionField(<<"F">>, <<"n", "a", "m", "e">>, IntType),
              OptionField(<<"F", "2">>, <<"n", "a", "m", "e">>, IntType)>>

\* Fields with the descriptor `-`, with none, and one with a key.
SkippedShape == <<OptionField(<<"A">>, SkipTag, StringType),
                  OptionField(<<"B">>, <<>>, StringType),
                  OptionField(<<"C">>, SkipTag, StringType),
                  OptionField(<<"D">>, <<"d">>, BoolType),
                  OptionField(<<"E">>, SkipTag \o <<",">> \o RequiredTag, StringType),
                  OptionField(<<"G">>, <<>>, StringType)>>

\* The JSONStructTag of the README with no descriptor on OmitEmpty.
NoKeyShape == <<OptionField(<<"N", "a", "m", "e">>, NameTag, StringType),
                OptionField(<<"O", "m", "i", "t", "E", "m", "p", "t", "y">>, <<>>, BoolType)>>

\* A field named Required whose descriptor has no flag, and a required one.
ReqNameShape == <<OptionField(<<"R", "e", "q", "u", "i", "r", "e", "d">>, <<"r">>, StringType),
                  OptionField(<<"Q">>, <<"q", ",">> \o RequiredTag, StringType),
                  OptionField(<<"S">>, <<"s">>, StringType)>>

\* The StringList and IntList of TestTagTypes.
ListsShape == <<OptionField(<<"L">>, <<"l">>, SliceOf(StringType)),
                OptionField(<<"I", "A">>, <<"i", "a">>, SliceOf(IntType))>>

\* The types of the option structs with the one field V, keyed v.
OneOptionTypes ==
    [Map |-> BasicType("map"), Func |-> BasicType("func"), Chan |-> BasicType("chan"),
     Interface |-> BasicType("interface"), UnsafePointer |-> BasicType("unsafe.Pointer"),
     Array |-> ArrayOf(IntType), SliceOfSlices |-> SliceOf(SliceOf(IntType)),
     Nested |-> InnerType, Custom |-> CustomType, Duration |-> DurationType]

MoreShapeNames ==
    {"Dup", "Skipped", "NoKey", "ReqName", "Lists"} \cup DOMAIN OneOptionTypes

OptionShape(name) ==
    IF name = "Req2" THEN Req2Shape
    ELSE IF name = "Opts" THEN OptsShape
    ELSE IF name = "ReqB" THEN ReqBShape
    ELSE IF name = "Dup" THEN DupShape
    ELSE IF name = "Skipped" THEN SkippedShape
    ELSE IF name = "NoKey" THEN NoKeyShape
    ELSE IF name = "ReqName" THEN ReqNameShape
    ELSE IF name = "Lists" THEN ListsShape
    ELSE IF name \in DOMAIN OneOptionTypes
    THEN <<OptionField(<<"V">>, <<"v">>, OneOptionTypes[name])>>
    ELSE NamedShape

\* NewFieldTagCache[T], the fields of T being OptionShape(defType.Name) when
\* T is a struct.  A call of Elem or NumField on a type that has none panics,
\* and so does the call of Kind when T is an interface type: reflect.TypeOf
\* of its nil zero value is the nil Type.
NewFieldTagCache(defType) ==
    LET failed == [status |-> "error", err |-> "FieldTagCache needs a struct type",
                   T |-> defType, structTagMap |-> EmptyMap, hasName |-> FALSE,
                   requiredTags |-> <<>>]
        panic == [failed EXCEPT !.status = "panic", !.err = "reflect: panic"]
        start == [failed EXCEPT !.status = "ok", !.err = ""]
    IN  IF defType.Kind = "interface"
        THEN panic
        ELSE IF defType.Kind = "struct"
        THEN CompileFields(OptionShape(defType.Name), 0, start)
        ELSE IF defType.Kind = "ptr"
        THEN LET elem == defType.Elem[1]
             IN  IF elem.Kind \notin ElemKinds THEN panic
                 ELSE IF elem.Elem[1].Kind = "struct" THEN panic
                 ELSE failed
        ELSE failed

\* new(T): every option at the zero value of its type, by field index.
NewValue(t) ==
    LET fields == OptionShape(t.T.Name)
    IN  [i \in 0..(Len(fields) - 1) |-> ZeroValue(fields[i + 1].Type)]

\* v.CanConvert(type of the option's field), for the values the resolvers give.
CanConvert(val, fType) ==
    \/ val.k = ZeroValue(fType).k
    \/ val.k \in (IntKinds \cup UintKinds \cup {"duration"})
       /\ fType.Kind \in (IntKinds \cup UintKinds \cup {"string"})

\* v.Convert(type of the option's field).
Convert(val, fType) ==
    IF val.k \in (IntKinds \cup UintKinds) /\ fType.Kind \in (IntKinds \cup UintKinds)
       /\ fType # DurationType
    THEN IntValue(fType.Kind, val.v)
    ELSE val

(***************************************************************************)
(* Add: the entries of one field.  `st` carries what the loop has built:   *)
(* value (the T under construction), requiredTags (the function-wide list  *)
(* of required options set so far), and two records of the run kept for    *)
(* the properties: keys, the effective key of every entry read in this     *)
(* field, and dropped, the resolver errors that were ignored.  The loop    *)
(* body is cut where it computes something it then reads several times:    *)
(* the match of keyValueRegex, the scanned value, the resolver's result.   *)
(***************************************************************************)
RECURSIVE ParseEntries(_, _, _, _, _)

\* An Add in which a key written on the first entry wins over the name.
EffectiveKeyWritten(t, i, key, valueStr) ==
    IF key # <<>> THEN key
    ELSE IF i = 0 /\ t.hasName THEN NameTag
    ELSE valueStr

\* Lines 302-306: the key the entry is looked up under.
EffectiveKey(t, i, key, valueStr) ==
    IF i = 0 /\ t.hasName THEN NameTag
    ELSE IF key = <<>> THEN valueStr
    ELSE key

\* An Add that returns the error of every resolver, required or not.
ReturnsErrorAlways(opt) == TRUE

\* Line 310: the error of a resolver is returned when its option is required.
ReturnsError(opt) == opt.Required

\* Lines 309-322: r is what the option's resolver returned.
EntryResolved(t, field, i, st, nxt, opt, r) ==
    IF r.err # NilError
    THEN IF ReturnsError(opt) THEN [st EXCEPT !.err = r.err]
         ELSE ParseEntries(t, field, nxt.tag, i + 1,
                  [st EXCEPT !.dropped = Append(st.dropped, r.err)])
    ELSE IF ~CanConvert(r.v, OptionShape(t.T.Name)[opt.FieldIndex + 1].Type)
    THEN [st EXCEPT !.err = CannotConvertError]
    ELSE ParseEntries(t, field, nxt.tag, i + 1,
             [st EXCEPT
                !.value[opt.FieldIndex] =
                    Convert(r.v, OptionShape(t.T.Name)[opt.FieldIndex + 1].Type),
                !.requiredTags = IF opt.Required
                                 THEN Append(st.requiredTags, opt.Name)
                                 ELSE st.requiredTags])

\* Lines 307-308: the lookup of the key and the call of the resolver.
EntryKeyed(t, field, i, st, nxt, key) ==
    IF key \notin DOMAIN t.structTagMap
    THEN ParseEntries(t, field, nxt.tag, i + 1, [st EXCEPT !.keys = Append(st.keys, key)])
    ELSE EntryResolved(t, field, i, [st EXCEPT !.keys = Append(st.keys, key)], nxt,
             t.structTagMap[key],
             UnmarshalTagOption(t.structTagMap[key].Resolver, field, nxt.valueStr))

\* Lines 298-306: nxt is the scanned value and the rest of the tag.
EntryScanned(t, field, i, st, key, nxt) ==
    IF nxt.err # NilError THEN [st EXCEPT !.err = nxt.err]
    ELSE EntryKeyed(t, field, i, st, nxt, EffectiveKey(t, i, key, nxt.valueStr))

\* Lines 278-301: the value of an entry, bracketed or not.
ScanValue(tag) ==
    IF tag[1] = OpenBracket
    THEN ScanDelimited(SliceFrom(tag, 1), <<>>, CloseBracket)
    ELSE getNextTagValue(tag)

\* Lines 267-277: kv is the match of keyValueRegex.
EntryMatched(t, field, tag, i, st, kv) ==
    IF ~kv.matched THEN st
    ELSE IF ~(kv.valueEnd > 0) THEN st
    ELSE EntryScanned(t, field, i, st,
             IF kv.keyEnd > 0 THEN Slice(tag, kv.keyStart, kv.keyEnd) ELSE <<>>,
             ScanValue(Slice(tag, kv.valueStart, kv.valueEnd)))

ParseEntries(t, field, tag, i, st) ==
    EntryMatched(t, field, tag, i, st, keyValueRegex(tag))

\* Add: the loop over the fields of the subject, from field i (0-based) on.
\* acc holds fieldTags, requiredTags, and per decoded field the keys it read.
\* FieldDone is the end of the loop body (lines 328-329, or the return of an
\* error met in the field), st being what the entries of the field gave.
RECURSIVE ParseFields(_, _, _, _)

FieldDone(t, fields, i, acc, st) ==
    IF st.err # NilError
    THEN [acc EXCEPT !.err = st.err,
                     !.keys = Append(acc.keys, st.keys),
                     !.dropped = st.dropped]
    ELSE ParseFields(t, fields, i + 1,
             [acc EXCEPT !.fieldTags = Append(acc.fieldTags,
                             [FieldName |-> fields[i + 1].Name, FieldIndex |-> i,
                              Value |-> st.value]),
                         !.requiredTags = st.requiredTags,
                         !.keys = Append(acc.keys, st.keys),
                         !.dropped = st.dropped])

ParseFields(t, fields, i, acc) ==
    IF i >= Len(fields) THEN acc
    ELSE IF fields[i + 1].PkgPath # "" \/ fields[i + 1].Anonymous
    THEN ParseFields(t, fields, i + 1, acc)
    ELSE FieldDone(t, fields, i, acc,
             ParseEntries(t, fields[i + 1], fields[i + 1].Tag, 0,
                 [value |-> NewValue(t), requiredTags |-> acc.requiredTags,
                  keys |-> <<>>, dropped |-> acc.dropped, err |-> NilError]))

(***************************************************************************)
(* The state: one StructTagCache[T] and the struct declarations of the     *)
(* program that uses it.                                                   *)
(*   plan        the cache's structTagMap, hasName, requiredTags and T,    *)
(*               fixed by NewFieldTagCache                                 *)
(*   typeToTags  the cache's map from reflect.Type to []FieldTag[T]        *)
(*   structs     the subject struct declarations, by name: the fields      *)
(*               [Name, Tag, PkgPath, Anonymous] of each, Tag being what   *)
(*               field.Tag.Get(tagName) gives                              *)
(*   last        the last call made on the cache and what it returned      *)
(*   first       the first GetOrAdd that returned no error: its type and   *)
(*               the records it returned (history)                         *)
(*   pc, local, inMap, fatal   the callers of the concurrent               *)
(*               specification: see there                                  *)
(***************************************************************************)
VARIABLES plan, typeToTags, structs, last, first, pc, local, inMap, fatal

vars == <<plan, typeToTags, structs, last, first, pc, local, inMap, fatal>>

\* A []FieldTag[T]: nil, or a slice of records.
NilTags == [nil |-> TRUE, v |-> <<>>]
Tags(records) == [nil |-> FALSE, v |-> records]

\* m[key] of a Go map: the zero value when the key is absent.
Lookup(m, key) == IF key \in DOMAIN m THEN m[key] ELSE NilTags

\* What one run of Add over rType computes, before it touches the map: the
\* error it returns, the type it would store under, the records, and of the run
\* itself the required options set (requiredTags), the keys read per decoded
\* field (keys) and the resolver errors ignored (dropped).
AddUnstored(err, rType) ==
    [err |-> err, rType |-> rType, fieldTags |-> <<>>, requiredTags |-> <<>>,
     keys |-> <<>>, dropped |-> <<>>]

\* Lines 331-344: the check of the required options, acc being what the loop
\* over the fields gave.  The missing keys are listed in the order of a map
\* iteration; the model keeps their set.
CheckRequired(t, acc) ==
    IF acc.err # NilError THEN acc
    ELSE IF Len(acc.requiredTags) # Len(t.requiredTags)
    THEN [acc EXCEPT !.err = MissingRequired(
             Range(t.requiredTags) \ Range(acc.requiredTags))]
    ELSE acc

\* Lines 234-238: a pointer or an array type stands for its element type.
Underlying(rType) == IF rType.Kind \in {"ptr", "array"} THEN rType.Elem[1] ELSE rType

AddResult(t, decls, rType) ==
    IF Underlying(rType).Kind # "struct"
    THEN AddUnstored(NonStructError, Underlying(rType))
    ELSE CheckRequired(t, ParseFields(t, decls[Underlying(rType).Name], 0,
                                      AddUnstored(NilError, Underlying(rType))))

\* A store made whatever the run returned.
AddStoreOnError(m, res) == MapPut(m, res.rType, Tags(res.fieldTags))

\* The map after the run: Add stores the records only when it returns nil.
AddStore(m, res) ==
    IF res.err = NilError THEN MapPut(m, res.rType, Tags(res.fieldTags)) ELSE m

NoRun == AddUnstored(NilError, BasicType("invalid"))

\* A call and its outcome: the records and the error returned, found (the
\* second result of Get), ran (whether the call ran Add), run (what that run
\* computed) and again (whether the type is the one `first` holds already).
Call(op, rType, tags, found, err, ran, run, again) ==
    [op |-> op, rType |-> rType, tags |-> tags, found |-> found, err |-> err,
     ran |-> ran, run |-> run, again |-> again]

NoFirst == [set |-> FALSE, rType |-> BasicType("invalid"), tags |-> NilTags]

(***************************************************************************)
(* The subject types the program passes to the cache.  B is a struct every *)
(* option shape of the model decodes without error; its first field is     *)
(* unexported.  A is drawn by Init.                                        *)
(***************************************************************************)
SubjectField(name, tag) == [Name |-> name, Tag |-> tag, PkgPath |-> "", Anonymous |-> FALSE]

GoodTag == <<"n", ",", "r", "=", "a", ",", "q", "=", "b", ",", "b", ",",
             "l", "=", "[", "a", "]">>

StructA == StructType("A")
StructB == StructType("B")

DeclB == <<[Name |-> <<"h">>, Tag |-> <<"r", "=", "'">>, PkgPath |-> "main",
            Anonymous |-> FALSE],
           SubjectField(<<"V">>, GoodTag)>>

SubjectTypes == {StructA, PointerTo(StructA), ArrayOf(StructA), StructB, IntType}

FieldNames == <<<<"X">>, <<"Y">>, <<"Z">>, <<"W">>>>

\* The struct declarations with n fields whose tags are drawn from pool.
StructsOver(pool, n) ==
    {[i \in 1..n |-> SubjectField(FieldNames[i], tags[i])] : tags \in [1..n -> pool]}

Plans == {NewFieldTagCache(StructType(n)) : n \in OptionShapeNames}

InitWith(declsA) ==
    /\ plan \in {p \in Plans : p.status = "ok"}
    /\ typeToTags = EmptyMap
    /\ structs \in {[n \in {"A", "B"} |-> IF n = "A" THEN a ELSE DeclB] : a \in declsA}
    /\ last = Call("none", BasicType("invalid"), NilTags, FALSE, NilError, FALSE, NoRun,
                   FALSE)
    /\ first = NoFirst
    /\ pc = <<>>
    /\ local = <<>>
    /\ inMap = {}
    /\ fatal = FALSE

(***************************************************************************)
(* The operations of the cache, each an atomic step of a single caller.    *)
(***************************************************************************)
AddCall(rType, res) ==
    /\ typeToTags' = AddStore(typeToTags, res)
    /\ last' = Call("Add", rType, NilTags, FALSE, res.err, TRUE, res, FALSE)
    /\ UNCHANGED <<plan, structs, first, pc, local, inMap, fatal>>

Add(rType) == AddCall(rType, AddResult(plan, structs, rType))

Get(rType) ==
    /\ last' = Call("Get", rType, Lookup(typeToTags, rType), rType \in DOMAIN typeToTags,
                    NilError, FALSE, NoRun, FALSE)
    /\ UNCHANGED <<plan, typeToTags, structs, first, pc, local, inMap, fatal>>

\* GetOrAdd when the lookup of line 358 finds the type.
GetOrAddHit(rType) ==
    /\ last' = Call("GetOrAdd", rType, typeToTags[rType], FALSE, NilError, FALSE, NoRun,
                    first.set /\ first.rType = rType)
    /\ first' = IF ~first.set
                THEN [set |-> TRUE, rType |-> rType, tags |-> typeToTags[rType]]
                ELSE first
    /\ UNCHANGED <<plan, typeToTags, structs, pc, local, inMap, fatal>>

\* GetOrAdd when it does not: lines 360-361, res being what Add computed.
GetOrAddMiss(rType, res) ==
    /\ typeToTags' = AddStore(typeToTags, res)
    /\ last' = Call("GetOrAdd", rType, Lookup(typeToTags', rType), FALSE, res.err, TRUE,
                    res, first.set /\ first.rType = rType)
    /\ first' = IF res.err = NilError /\ ~first.set
                THEN [set |-> TRUE, rType |-> rType, tags |-> Lookup(typeToTags', rType)]
                ELSE first
    /\ UNCHANGED <<plan, structs, pc, local, inMap, fatal>>

GetOrAdd(rType) ==
    IF rType \in DOMAIN typeToTags
    THEN GetOrAddHit(rType)
    ELSE GetOrAddMiss(rType, AddResult(plan, structs, rType))

Next ==
    \E rType \in SubjectTypes :
        \/ Add(rType)
        \/ Get(rType)
        \/ GetOrAdd(rType)

(***************************************************************************)
(* Spec: struct A has up to MaxFields fields, each tagged from TagPool.    *)
(***************************************************************************)
MaxFields == 2

TagPool ==
    { <<>>,
      <<"r", "=", "x">>,
      <<"r", "=", "x", ",", "q", "=", "y">>,
      GoodTag,
      <<"s", "=", "'", "x">>,
      <<"b", "=", "n", "o", ",", "l", "=", "[", "a", "]">> }

Init == InitWith(UNION {StructsOver(TagPool, n) : n \in 0..MaxFields})

Spec == Init /\ [][Next]_vars

(***************************************************************************)
(* Properties of Spec                                                      *)
(***************************************************************************)
Required == Range(plan.requiredTags)

\* The last call ran Add, and the run read every field of the subject to its
\* end: it met no grammar error and no failing required option.
RanThrough ==
    /\ last.op \in {"Add", "GetOrAdd"}
    /\ last.ran
    /\ last.err.kind \in {"nil", "missing required tag fields"}
    /\ Underlying(last.rType).Kind = "struct"

\* The decoded fields (by position in run.keys) whose tag has no entry for key.
Omitting(key) == {f \in DOMAIN last.run.keys : key \notin Range(last.run.keys[f])}

\* C1: if the tag of any decoded field of the subject omits a required key r
\* entirely, Add/GetOrAdd fails with the missing-required error and the error
\* lists r, however many fields the subject has and whatever the other fields
\* supply.
C1_RequiredPerField ==
    RanThrough =>
        \A r \in Required :
            Omitting(r) # {} =>
                /\ last.err.kind = "missing required tag fields"
                /\ r \in last.err.keys

\* The required keys left unmet by the subject of the last call: those some
\* decoded field omits, or all of them when the subject has no decoded field.
Unmet == {r \in Required : last.run.keys = <<>> \/ Omitting(r) # {}}

\* C2: whenever Add/GetOrAdd fails with the missing-required error, the keys
\* it names are exactly the required keys left unmet: the list is not empty,
\* holds every unmet key and no satisfied one; so a subject whose every field
\* supplies every required option does not fail with this error.
C2_MissingKeysExact ==
    (RanThrough /\ last.err.kind = "missing required tag fields") =>
        /\ last.err.keys # {}
        /\ last.err.keys = Unmet

\* C3: a failed decode is never cached: a call of Add or GetOrAdd that returns
\* an error leaves the map as it was, with no entry for the type it was given
\* nor for the struct type under it (so Get reports not found and a later
\* GetOrAdd decodes again), and GetOrAdd returns nil records with the error.
C3_FailedDecodeNotCached ==
    [][(last'.op \in {"Add", "GetOrAdd"} /\ last'.err # NilError) =>
          /\ typeToTags' = typeToTags
          /\ last'.rType \notin DOMAIN typeToTags'
          /\ Underlying(last'.rType) \notin DOMAIN typeToTags'
          /\ last'.tags = NilTags]_vars

\* A GetOrAdd has failed on a required option left out while another type's
\* records are cached.
C3_Witness ==
    /\ last.op = "GetOrAdd"
    /\ last.err.kind = "missing required tag fields"
    /\ StructB \in DOMAIN typeToTags
    /\ last.rType \notin DOMAIN typeToTags

\* C4: once a GetOrAdd of a type has returned no error, every later GetOrAdd
\* of that type returns the records the first one returned and runs no Add:
\* the decode runs at most once for the shape.
C4_DecodedOnce ==
    (last.op = "GetOrAdd" /\ last.again) =>
        /\ last.err = NilError
        /\ last.tags = first.tags
        /\ ~last.ran

\* The fields of a struct declaration that Add decodes.
DecodedFields(decl) ==
    {i \in DOMAIN decl : ~(decl[i].PkgPath # "" \/ decl[i].Anonymous)}

\* C5: GetOrAdd on a pointer-to-struct type returns, with a nil error, the
\* decoded records of the struct pointed to, one per decoded field, never nil,
\* and Get returns the same records afterwards.
C5_PointerSubject ==
    (last.op = "GetOrAdd" /\ last.rType.Kind = "ptr" /\ last.err = NilError) =>
        /\ ~last.tags.nil
        /\ Len(last.tags.v) = Cardinality(DecodedFields(structs[last.rType.Elem[1].Name]))
        /\ last.tags = Lookup(typeToTags, last.rType)
        /\ last.rType \in DOMAIN typeToTags

(***************************************************************************)
(* SpecTags: struct A has one field, tagged with a quoted string, with a   *)
(* value whose quote or bracket is left open, or with an entry for a       *)
(* boolean option in each of its forms.                                    *)
(***************************************************************************)
MaxStrLen == 3

Alphabet == {"a", " ", Comma, CloseBracket, Backslash, Quote}

QuotedStrings == UNION {[1..n -> Alphabet] : n \in 0..MaxStrLen}

\* The escaping of a quoted value: \' for every quote.
RECURSIVE escape(_)
escape(s) ==
    IF Len(s) = 0 THEN <<>>
    ELSE (IF s[1] = Quote THEN <<Backslash, Quote>> ELSE <<s[1]>>) \o escape(Tail(s))

\* key='escape(s)'
QuotedEntry(key, s) == key \o <<Equals, Quote>> \o escape(s) \o <<Quote>>

QuotedTags == {QuotedEntry(<<"s">>, s) : s \in QuotedStrings}

\* Tags in which a quote or a bracket is left open: in the value of option s,
\* of an unknown key u, of option r, in an element of the list l (alone and
\* after entries for r and q), and a list whose bracket is left open.
OpenTags ==
    { <<"s", "=", "'", "x">>,
      <<"s", "=", "'", "x", "\\", "'">>,
      <<"u", "=", "'", "x">>,
      <<"r", "=", "'", "x">>,
      <<"u", "=", "[", "x">>,
      <<"l", "=", "[", "a">>,
      <<"l", "=", "[", "a", "\\", "]">>,
      <<"l", "=", "[", "'", "x", "]">>,
      <<"b", ",", "l", "=", "[", "'", "x", "]">>,
      <<"r", "=", "x", ",", "q", "=", "y", ",", "l", "=", "[", "'", "x", "]">> }

\* The forms of an entry for the boolean option k, with the value each gives.
BoolEntryForms(k) ==
    { [entry |-> k, value |-> TRUE],
      [entry |-> k \o <<"=", "t", "r", "u", "e">>, value |-> TRUE],
      [entry |-> k \o <<"=", "f", "a", "l", "s", "e">>, value |-> FALSE],
      [entry |-> k \o <<"=", "n", "o", "t", " ", "t", "r", "u", "e">>, value |-> FALSE],
      [entry |-> <<>>, value |-> FALSE] }

BoolKeys(t) ==
    {k \in DOMAIN t.structTagMap : t.structTagMap[k].Resolver.res = "boolResolver"}

\* A value the option's resolver accepts.
ValidValue(opt) ==
    IF opt.Resolver.res = "sliceResolver" THEN <<"[", "a", "]">>
    ELSE IF opt.Resolver.res = "boolResolver" THEN <<"t", "r", "u", "e">>
    ELSE <<"x">>

\* An entry with a valid value for every key of `keys` but k.
RECURSIVE Supplying(_, _, _)
Supplying(t, keys, k) ==
    IF Len(keys) = 0 THEN <<>>
    ELSE (IF Head(keys) = k THEN <<>>
          ELSE Head(keys) \o <<Equals>> \o ValidValue(t.structTagMap[Head(keys)])
                   \o <<Comma>>)
         \o Supplying(t, Tail(keys), k)

\* What stands ahead of the entry for k: a name where the plan has a name
\* option, and every required option other than k.
Ahead(t, k) ==
    (IF t.hasName THEN <<"x", Comma>> ELSE <<>>) \o Supplying(t, t.requiredTags, k)

BoolTags(t) ==
    UNION {{Ahead(t, k) \o f.entry : f \in BoolEntryForms(k)} : k \in BoolKeys(t)}

TagsUnderTest(t) == QuotedTags \cup OpenTags \cup BoolTags(t)

InitTags == InitWith(StructsOver(TagsUnderTest(plan), 1))

NextTags ==
    \/ Add(StructA)
    \/ Get(StructA)
    \/ GetOrAdd(StructA)

SpecTags == InitTags /\ [][NextTags]_vars

(***************************************************************************)
(* Properties of SpecTags                                                  *)
(***************************************************************************)
\* The last call ran Add over struct A, whose one field carries `tag`.
Decoded(tag) ==
    /\ last.op \in {"Add", "GetOrAdd"}
    /\ last.ran
    /\ last.rType = StructA
    /\ structs["A"][1].Tag = tag

\* The run met a quote or a bracket left open: in the tag itself (the error
\* the run ended with) or in the contents of a list (an error the resolver of
\* the list returned and the run ignored).
OpenDelimiterMet ==
    /\ last.op \in {"Add", "GetOrAdd"}
    /\ last.ran
    /\ \/ last.run.err = MissingEndQuote
       \/ MissingEndQuote \in Range(last.run.dropped)

\* C8: a tag in which a value opens a quote or a bracket that is not closed
\* makes Add fail for the whole subject type, with no records returned and
\* nothing cached, whatever option the entry's key names, and also when the
\* open quote is in an element of a list option.
C8_GrammarErrorsAbort ==
    OpenDelimiterMet =>
        /\ last.err # NilError
        /\ last.tags = NilTags
        /\ Underlying(last.rType) \notin DOMAIN typeToTags

\* The plan declares the string option s, no required option and no name.
PlainStringPlan ==
    /\ <<"s">> \in DOMAIN plan.structTagMap
    /\ plan.structTagMap[<<"s">>].Resolver.res = "defaultResolver"
    /\ plan.requiredTags = <<>>
    /\ ~plan.hasName

\* C9: for every string s, the entry s='escape(s)' decodes the string option
\* s to exactly s, as a single token.
C9_QuotingRoundTrip ==
    \A s \in QuotedStrings :
        (PlainStringPlan /\ Decoded(QuotedEntry(<<"s">>, s))) =>
            /\ last.err = NilError
            /\ last.run.keys = << << <<"s">> >> >>
            /\ last.run.fieldTags[1].Value[plan.structTagMap[<<"s">>].FieldIndex]
                   = StringValue(s)

\* The last call decoded an entry for the boolean option k in the form f,
\* after a name and the other required options, and gave k the value f names.
BoolEntryDecoded(k, f) == Decoded(Ahead(plan, k) \o f.entry)

BoolEntryHolds(k, f) ==
    /\ last.err = NilError
    /\ last.run.fieldTags[1].Value[plan.structTagMap[k].FieldIndex] = BoolValue(f.value)

NumCallers == 2

Callers == 1..NumCallers

ConcTypes == {StructA, StructB}

ConcTagPool == {GoodTag, <<"r", "=", "x">>}

NoLocal == [op |-> "none", rType |-> BasicType("invalid"), res |-> NoRun, raced |-> FALSE]

InitConc ==
    /\ plan \in {p \in Plans : p.status = "ok"}
    /\ typeToTags = EmptyMap
    /\ structs \in {[n \in {"A", "B"} |-> IF n = "A" THEN a ELSE DeclB] :
                        a \in StructsOver(ConcTagPool, 1)}
    /\ last = Call("none", BasicType("invalid"), NilTags, FALSE, NilError, FALSE, NoRun,
                   FALSE)
    /\ first = NoFirst
    /\ pc = [p \in Callers |-> "idle"]
    /\ local = [p \in Callers |-> NoLocal]
    /\ inMap = {}
    /\ fatal = FALSE

\* The other callers that are writing the map, and of them those writing rType.
Writers(p) == inMap \ {p}
WritersOf(p, rType) == {q \in Writers(p) : local[q].res.rType = rType}

\* What a read of t.typeToTags[rType] by caller p can give.
ReadOutcomes(p, rType) ==
    {[fatal |-> FALSE, found |-> rType \in DOMAIN typeToTags,
      tags |-> Lookup(typeToTags, rType)]}
    \cup (IF Writers(p) # {}
          THEN {[fatal |-> TRUE, found |-> FALSE, tags |-> NilTags]}
          ELSE {})
    \cup (IF WritersOf(p, rType) # {}
          THEN {[fatal |-> FALSE, found |-> TRUE, tags |-> NilTags]}
               \cup {[fatal |-> FALSE, found |-> TRUE, tags |-> Tags(local[q].res.fieldTags)] :
                        q \in WritersOf(p, rType)}
          ELSE {})

\* A caller enters Add or GetOrAdd.
Enter(p, op, rType) ==
    /\ ~fatal
    /\ pc[p] = "idle"
    /\ pc' = [pc EXCEPT ![p] = IF op = "GetOrAdd" THEN "lookup" ELSE "decode"]
    /\ local' = [local EXCEPT ![p] = [NoLocal EXCEPT !.op = op, !.rType = rType]]
    /\ UNCHANGED <<plan, typeToTags, structs, last, first, inMap, fatal>>

\* Line 358, o being what the read gave.
LookupRead(p, o) ==
    /\ fatal' = o.fatal
    /\ local' = [local EXCEPT ![p].raced = Writers(p) # {}]
    /\ IF o.fatal THEN pc' = pc /\ last' = last
       ELSE IF o.found
       THEN /\ pc' = [pc EXCEPT ![p] = "idle"]
            /\ last' = Call("GetOrAdd", local[p].rType, o.tags, TRUE, NilError, FALSE,
                            NoRun, FALSE)
       ELSE /\ pc' = [pc EXCEPT ![p] = "decode"]
            /\ last' = last
    /\ UNCHANGED <<plan, typeToTags, structs, first, inMap>>

LookupStep(p) ==
    /\ ~fatal
    /\ pc[p] = "lookup"
    /\ \E o \in ReadOutcomes(p, local[p].rType) : LookupRead(p, o)

\* Lines 234-344, res being what the decode computed.
Decoded345(p, res) ==
    /\ pc' = [pc EXCEPT ![p] = IF res.err = NilError THEN "store" ELSE "return"]
    /\ local' = [local EXCEPT ![p].res = res]
    /\ UNCHANGED <<plan, typeToTags, structs, last, first, inMap, fatal>>

DecodeStep(p) ==
    /\ ~fatal
    /\ pc[p] = "decode"
    /\ Decoded345(p, AddResult(plan, structs, local[p].rType))

\* Line 345: the map assignment starts.  When another caller is writing, the
\* runtime may detect it.
StoreBegin(p) ==
    /\ ~fatal
    /\ pc[p] = "store"
    /\ \E detected \in (IF Writers(p) # {} THEN BOOLEAN ELSE {FALSE}) :
          /\ fatal' = detected
          /\ pc' = IF detected THEN pc ELSE [pc EXCEPT ![p] = "storing"]
          /\ inMap' = IF detected THEN inMap ELSE inMap \cup {p}
          /\ local' = [local EXCEPT ![p].raced = Writers(p) # {}]
    /\ UNCHANGED <<plan, typeToTags, structs, last, first>>

\* Line 345: the map assignment ends.
StoreEnd(p) ==
    /\ ~fatal
    /\ pc[p] = "storing"
    /\ typeToTags' = AddStore(typeToTags, local[p].res)
    /\ inMap' = inMap \ {p}
    /\ pc' = [pc EXCEPT ![p] = "return"]
    /\ UNCHANGED <<plan, structs, last, first, local, fatal>>

\* The return of Add.
ReturnAdd(p) ==
    /\ ~fatal
    /\ pc[p] = "return"
    /\ local[p].op = "Add"
    /\ pc' = [pc EXCEPT ![p] = "idle"]
    /\ last' = Call("Add", local[p].rType, NilTags, FALSE, local[p].res.err, TRUE,
                    local[p].res, FALSE)
    /\ UNCHANGED <<plan, typeToTags, structs, first, local, inMap, fatal>>

\* Line 361, o being what the read gave.
ReturnRead(p, o) ==
    /\ fatal' = o.fatal
    /\ local' = [local EXCEPT ![p].raced = Writers(p) # {}]
    /\ pc' = IF o.fatal THEN pc ELSE [pc EXCEPT ![p] = "idle"]
    /\ last' = IF o.fatal THEN last
               ELSE Call("GetOrAdd", local[p].rType, o.tags, o.found, local[p].res.err,
                         TRUE, local[p].res, FALSE)
    /\ UNCHANGED <<plan, typeToTags, structs, first, inMap>>

ReturnGetOrAdd(p) ==
    /\ ~fatal
    /\ pc[p] = "return"
    /\ local[p].op = "GetOrAdd"
    /\ \E o \in ReadOutcomes(p, local[p].rType) : ReturnRead(p, o)

\* Get: the one read of line 351, o being what it gave.
GetRead(p, rType, o) ==
    /\ fatal' = o.fatal
    /\ local' = [local EXCEPT ![p] = [NoLocal EXCEPT !.op = "Get", !.rType = rType,
                                                      !.raced = Writers(p) # {}]]
    /\ last' = IF o.fatal THEN last
               ELSE Call("Get", rType, o.tags, o.found, NilError, FALSE, NoRun, FALSE)
    /\ UNCHANGED <<plan, typeToTags, structs, first, pc, inMap>>

GetStep(p, rType) ==
    /\ ~fatal
    /\ pc[p] = "idle"
    /\ \E o \in ReadOutcomes(p, rType) : GetRead(p, rType, o)

NextConc ==
    \E p \in Callers :
        \/ \E rType \in ConcTypes : Enter(p, "Add", rType)
        \/ \E rType \in ConcTypes : Enter(p, "GetOrAdd", rType)
        \/ \E rType \in ConcTypes : GetStep(p, rType)
        \/ LookupStep(p)
        \/ DecodeStep(p)
        \/ StoreBegin(p)
        \/ StoreEnd(p)
        \/ ReturnAdd(p)
        \/ ReturnGetOrAdd(p)

SpecConc == InitConc /\ [][NextConc]_vars

(***************************************************************************)
(* Properties of SpecConc                                                  *)
(***************************************************************************)
\* Caller p is in a GetOrAdd of rType and has entered its Add: the decode is
\* running, or has run and the call has not returned yet.
InAdd(p, rType) ==
    /\ local[p].op = "GetOrAdd"
    /\ local[p].rType = rType
    /\ pc[p] \in {"decode", "store", "storing", "return"}

\* C6: of the callers that are in GetOrAdd for one subject type at the same
\* time, at most one runs the decode of that type: no two of them are in Add
\* together, so the type is decoded once.
C6_Singleflight ==
    \A rType \in ConcTypes : \A p, q \in Callers :
        (InAdd(p, rType) /\ InAdd(q, rType)) => p = q

\* An entry or a result that holds a record for every decoded field of the
\* struct, each with a value for every option.
Complete(rType, tags) ==
    /\ ~tags.nil
    /\ Len(tags.v) = Cardinality(DecodedFields(structs[rType.Name]))
    /\ \A i \in DOMAIN tags.v : DOMAIN tags.v[i].Value = DOMAIN NewValue(plan)

\* C7: in every state the entry of a subject type is absent or complete, no
\* Get or GetOrAdd finds an entry that is not complete, and no caller accesses
\* the map while another caller is writing it.
C7_NoPartialEntries ==
    /\ \A rType \in DOMAIN typeToTags : Complete(rType, typeToTags[rType])
    /\ (last.op \in {"Get", "GetOrAdd"} /\ last.found) => Complete(last.rType, last.tags)
    /\ \A p \in Callers : ~local[p].raced

(***************************************************************************)
(* SpecEntries: struct A has up to MaxFields fields, tagged with entries   *)
(* for the name option in each form of a first entry, and with entries on  *)
(* which the resolver of a boolean option fails.                           *)
(***************************************************************************)
\* First entries: none, empty, a value, a key and a value, a quoted value,
\* and the key of an option written bare.
NameEntryTags ==
    { <<>>,
      <<",", "o">>,
      <<"x", ",", "o">>,
      <<"o", "=", "x", ",", "g">>,
      <<"'", "a", ",", "b", "'", ",", "o">>,
      <<"o">> }

\* Entries whose value no boolean resolver accepts, each followed by entries
\* that resolve.
FailingEntryTags ==
    { <<"b", "=", "n", "o", ",", "l", "=", "[", "a", "]">>,
      <<"b", ",", "b", "=", "n", "o", ",", "l", "=", "[", "a", "]">>,
      <<"x", ",", "o", ",", "o", "=", "n", "o", ",", "g">> }

InitEntries ==
    InitWith(UNION {StructsOver(NameEntryTags \cup FailingEntryTags, n) : n \in 1..MaxFields})

SpecEntries == InitEntries /\ [][NextTags]_vars

(***************************************************************************)
(* Properties of SpecEntries                                               *)
(***************************************************************************)
\* The last call ran Add over struct A.
RanOverA ==
    /\ last.op \in {"Add", "GetOrAdd"}
    /\ last.ran
    /\ last.rType = StructA

\* The value of option k in the record of field i (1-based) of the last run.
OptionValue(i, k) == last.run.fieldTags[i].Value[plan.structTagMap[k].FieldIndex]

\* Tags with a first entry, the name each gives (none: the declared name of
\* the field) and the key written on the first entry, if any.
NameCases ==
    { [tag |-> <<",", "o">>, name |-> <<>>, written |-> <<>>],
      [tag |-> <<"x", ",", "o">>, name |-> <<"x">>, written |-> <<>>],
      [tag |-> <<"o", "=", "x", ",", "g">>, name |-> <<"x">>, written |-> <<"o">>],
      [tag |-> <<"'", "a", ",", "b", "'", ",", "o">>, name |-> <<"a", ",", "b">>,
       written |-> <<>>],
      [tag |-> <<"o">>, name |-> <<"o">>, written |-> <<"o">>] }

\* C11: under a plan with a name option the first entry of a tag is taken as
\* the name, whatever key is written on it, and the option of that key is not
\* set by it: the name is the value of the entry, or the declared name of the
\* field when the entry is empty.
C11_NameSemantics ==
    (plan.hasName /\ RanOverA) =>
        \A i \in DOMAIN structs["A"] : \A c \in NameCases :
            structs["A"][i].Tag = c.tag =>
                /\ i \in DOMAIN last.run.fieldTags
                /\ OptionValue(i, NameTag) =
                       StringValue(IF c.name = <<>> THEN structs["A"][i].Name ELSE c.name)
                /\ c.written # <<>> => OptionValue(i, c.written) = BoolValue(FALSE)

\* The tag o=x,g has been decoded under a plan with a name option.
C11_Witness ==
    /\ plan.hasName
    /\ RanOverA
    /\ structs["A"][1].Tag = <<"o", "=", "x", ",", "g">>
    /\ OptionValue(1, NameTag) = StringValue(<<"x">>)
    /\ OptionValue(1, <<"g">>) = BoolValue(TRUE)

\* Tags with an entry on which the resolver of the boolean option `key` fails:
\* the value the option had before that entry, and an option set by a later
\* entry with its value.  `named`: the tag is written for a plan with a name.
FailingCases ==
    { [tag |-> <<"b", "=", "n", "o", ",", "l", "=", "[", "a", "]">>, named |-> FALSE,
       key |-> <<"b">>, kept |-> FALSE,
       after |-> <<"l">>, afterValue |-> SliceValue(<<StringValue(<<"a">>)>>)],
      [tag |-> <<"b", ",", "b", "=", "n", "o", ",", "l", "=", "[", "a", "]">>,
       named |-> FALSE, key |-> <<"b">>, kept |-> TRUE,
       after |-> <<"l">>, afterValue |-> SliceValue(<<StringValue(<<"a">>)>>)],
      [tag |-> <<"x", ",", "o", ",", "o", "=", "n", "o", ",", "g">>, named |-> TRUE,
       key |-> <<"o">>, kept |-> TRUE,
       after |-> <<"g">>, afterValue |-> BoolValue(TRUE)] }

\* The plan declares the options of the case, the failing one a boolean.
Applies(c) ==
    /\ plan.hasName = c.named
    /\ {c.key, c.after} \subseteq DOMAIN plan.structTagMap
    /\ plan.structTagMap[c.key].Resolver.res = "boolResolver"

\* The fields of struct A on which the resolver of a required option fails.
FailingRequired ==
    {i \in DOMAIN structs["A"] :
        \E c \in FailingCases :
            Applies(c) /\ structs["A"][i].Tag = c.tag /\ plan.structTagMap[c.key].Required}

C18_NameAlwaysSet ==
    (plan.hasName /\ RanOverA /\ last.err = NilError) =>
        \A i \in DOMAIN structs["A"] :
            /\ i \in DOMAIN last.run.fieldTags
            /\ OptionValue(i, NameTag) # StringValue(<<>>)
            /\ structs["A"][i].Tag = <<>> =>
                   OptionValue(i, NameTag) = StringValue(structs["A"][i].Name)

-----------------------------------------------------------------------------
\* Building the plan: NewFieldTagCache[T] is called once, for one T of
\* DefTypes, and the cache it returns is then used on the subject struct A.

NoPlan ==
    [status |-> "none", err |-> "", T |-> BasicType("invalid"), structTagMap |-> EmptyMap,
     hasName |-> FALSE, requiredTags |-> <<>>]

\* The type arguments: the option structs, and the string of
\* TestNewTagCacheInvalid with other types that are no struct.
DefTypes ==
    {StructType(n) : n \in OptionShapeNames \cup MoreShapeNames}
        \cup {StringType, IntType, SliceOf(StringType), BasicType("map"),
              BasicType("interface"), PointerTo(StructType("Named")),
              PointerTo(PointerTo(StructType("Named"))), PointerTo(IntType),
              PointerTo(SliceOf(IntType)), PointerTo(SliceOf(StructType("Named")))}

UseTags ==
    { <<>>,
      <<"o", "m", "i", "t", "e", "m", "p", "t", "y">>,
      <<"x", ",", "o", "m", "i", "t", "e", "m", "p", "t", "y">>,
      <<"r", "=", "a">>,
      <<"q", "=", "a">>,
      <<"q", "=", "a", ",", "r", "=", "b">>,
      <<"v", "=", "1">>,
      <<"d", ",", "l", "=", "[", "a", "]">> }

\* The state in which `built` is what NewFieldTagCache has returned and no
\* type has been added.
InitBuilt(built, declsA) ==
    /\ plan = built
    /\ typeToTags = EmptyMap
    /\ structs \in {[n \in {"A", "B"} |-> IF n = "A" THEN a ELSE DeclB] : a \in declsA}
    /\ last = Call("none", BasicType("invalid"), NilTags, FALSE, NilError, FALSE, NoRun,
                   FALSE)
    /\ first = NoFirst
    /\ pc = <<>>
    /\ local = <<>>
    /\ inMap = {}
    /\ fatal = FALSE

InitNew == InitBuilt(NoPlan, StructsOver(UseTags, 1))

New(defType) ==
    /\ plan.status = "none"
    /\ plan' = NewFieldTagCache(defType)
    /\ UNCHANGED <<typeToTags, structs, last, first, pc, local, inMap, fatal>>

NextNew ==
    \/ \E defType \in DefTypes : New(defType)
    \/ plan.status = "ok" /\ Add(StructA)
    \/ plan.status = "ok" /\ Get(StructA)
    \/ plan.status = "ok" /\ GetOrAdd(StructA)

SpecNew == InitNew /\ [][NextNew]_vars

\* The fields of T when T is a struct.
Fields == OptionShape(plan.T.Name)

\* C13: NewFieldTagCache ends with a plan or with an error and never panics,
\* and it ends with an error for every T that is not a struct: a primitive,
\* a collection, a pointer to anything.
C13_StructOnly ==
    plan.status # "none" =>
        /\ plan.status \in {"ok", "error"}
        /\ plan.T.Kind # "struct" => plan.status = "error"

\* The kinds no resolver converts to: those of the list of line 172, a slice
\* of slices, and a struct within the option struct.
NoConversion(fType) ==
    \/ fType.Kind \in {"map", "func", "chan", "interface", "unsafe.Pointer", "array",
                       "struct"}
    \/ fType.Kind = "slice" /\ fType.Elem[1].Kind = "slice"

\* Some inputs to a resolver, one for each kind of value and of list.
SampleInputs == { <<"1">>, <<"a">>, <<"[", "1", "]">>, <<"t">> }

\* C14: a plan is built only when no kept option has a type of a kind without
\* a conversion and without an UnmarshalTagOption of its own, so each resolver
\* of a plan converts some input.
C14_UnsupportedRejected ==
    plan.status = "ok" =>
        \A k \in DOMAIN plan.structTagMap :
            /\ ~(/\ NoConversion(Fields[plan.structTagMap[k].FieldIndex + 1].Type)
                 /\ ~Implements(Fields[plan.structTagMap[k].FieldIndex + 1].Type))
            /\ \E value \in SampleInputs :
                   UnmarshalTagOption(plan.structTagMap[k].Resolver,
                       [Name |-> <<"X">>, Tag |-> <<>>, PkgPath |-> "", Anonymous |-> FALSE],
                       value).err = NilError

\* C15: an exported field of the option struct whose descriptor names no key
\* is kept under its lower-cased name, so the tag `omitempty` sets the field
\* OmitEmpty that was declared with no descriptor.
C15_DefaultKey ==
    /\ plan.status = "ok" =>
           \A i \in DOMAIN Fields :
               (Fields[i].PkgPath = "" /\ Split(Fields[i].Tag)[1] = <<>>) =>
                   /\ ToLower(Fields[i].Name) \in DOMAIN plan.structTagMap
                   /\ plan.structTagMap[ToLower(Fields[i].Name)].FieldIndex = i - 1
    /\ (/\ plan.status = "ok"
        /\ plan.T = StructType("NoKey")
        /\ RanOverA
        /\ structs["A"][1].Tag = <<"o", "m", "i", "t", "e", "m", "p", "t", "y">>) =>
           /\ Len(last.run.fieldTags) = 1
           /\ last.run.fieldTags[1].Value[1] = BoolValue(TRUE)

\* The kept fields of T: exported and with a key other than `-`.
Kept ==
    {i \in DOMAIN Fields :
        /\ Fields[i].PkgPath = "" \/ Fields[i].Anonymous
        /\ Split(Fields[i].Tag)[1] \notin {EmptyTag, SkipTag}}

\* Two kept fields of T have the same key.
SharedKey ==
    \E i, j \in Kept : i # j /\ Split(Fields[i].Tag)[1] = Split(Fields[j].Tag)[1]

\* C17: NewFieldTagCache returns an error when two kept fields have the same
\* key, and fields that are skipped, with the descriptor `-` or with none,
\* are no duplicates of each other.
C17_DuplicateKeys ==
    (plan.status # "none" /\ plan.T.Kind = "struct") =>
        /\ SharedKey => plan.status = "error"
        /\ (plan.status = "error" /\ plan.err = "tag is in use by multiple fields")
               => SharedKey

\* NewFieldTagCache has returned an error for the struct with two fields
\* keyed `name`.
C17_Witness ==
    /\ plan.T = StructType("Dup")
    /\ SharedKey
    /\ plan.status = "error"
    /\ plan.err = "tag is in use by multiple fields"

\* The flag `required` is written after the key of field i of T.
FlagWritten(i) ==
    \E n \in 2..Len(Split(Fields[i].Tag)) : Split(Fields[i].Tag)[n] = RequiredTag

\* C19: an option of a plan is required, and its key is in the list of the
\* required keys, exactly when the flag `required` is written after the key in
\* the descriptor of its field, whatever the name of the field.
C19_RequiredByFlag ==
    plan.status = "ok" =>
        \A k \in DOMAIN plan.structTagMap :
            /\ plan.structTagMap[k].Required <=> FlagWritten(plan.structTagMap[k].FieldIndex + 1)
            /\ k \in Range(plan.requiredTags)
                   <=> FlagWritten(plan.structTagMap[k].FieldIndex + 1)

-----------------------------------------------------------------------------
\* Lists: the cache of the option struct with a string list `l` and an integer
\* list `ia` decodes one field whose tag gives one of the lists.

MaxElems == 3

\* The elements as they are written: empty, plain, quoted with a comma within.
StringElems == { <<>>, <<"a">>, <<"'", "a", ",", "b", "'">> }
IntElems == { <<"1">>, <<"2">>, <<"3">> }

\* The lists of 1..MaxElems written elements; the one empty element is left
\* out, being written as the empty list is.
ElemLists(elems) ==
    UNION {[1..n -> elems] : n \in 1..MaxElems} \ { << <<>> >> }

RECURSIVE JoinElems(_)
JoinElems(es) ==
    IF Len(es) = 0 THEN <<>>
    ELSE IF Len(es) = 1 THEN es[1]
    ELSE es[1] \o <<Comma>> \o JoinElems(Tail(es))

\* The element that the written element stands for.
Unquoted(e) ==
    IF Len(e) >= 2 /\ e[1] = Quote THEN SubSeq(e, 2, Len(e) - 1) ELSE e

\* The tags with their lists: the option index and the elements written.
ListCases ==
    {[tag |-> <<"l", "=", "[">> \o JoinElems(es) \o <<"]">>, index |-> 0,
      elems |-> [i \in DOMAIN es |-> StringValue(Unquoted(es[i]))]] :
        es \in ElemLists(StringElems) \cup { <<>> }}
    \cup
    {[tag |-> <<"i", "a", "=", "[">> \o JoinElems(es) \o <<"]">>, index |-> 1,
      elems |-> [i \in DOMAIN es |-> IntValue("int", DigitValue(es[i][1]))]] :
        es \in ElemLists(IntElems)}

InitLists ==
    InitBuilt(NewFieldTagCache(StructType("Lists")),
              StructsOver({c.tag : c \in ListCases}, 1))

SpecLists == InitLists /\ [][NextTags]_vars

\* C16: a list written as key=[e1,...,en] decodes to its n elements in the
\* order written, one for each position between the commas outside quotes and
\* none for `[]`; a quoted element keeps its commas, an empty position gives
\* the empty element, and [1,2,3] on an integer list gives 1, 2, 3.
C16_ListElements ==
    RanOverA =>
        \A c \in ListCases :
            structs["A"][1].Tag = c.tag =>
                /\ last.err = NilError
                /\ Len(last.run.fieldTags) = 1
                /\ last.run.fieldTags[1].Value[c.index] = SliceValue(c.elems)

-----------------------------------------------------------------------------
\* Add, one loop iteration at a time.  pc is the loop the call is in: "start"
\* before the call, "fields" (line 250), "entry" (line 264), "bracket" (line
\* 280), "quote" (line 206), "resolve" (line 302), "list" (resolvers.go line
\* 73), "listquote" (line 206 within the list), "check" (line 331), "done".
\* local holds the variables of the call:
\*   acc       fieldTags and requiredTags, with the keys read and the errors
\*             ignored, as ParseFields keeps them
\*   i, n      the counters of the field loop and of the entry loop; n is kept
\*             as 0 or 1, the code reading only whether it is 0
\*   st        the value and the keys of the field being decoded
\*   tag, key, valueStr   the variables of these names in Add
\*   list, elems, elem    tag, value and valueStr of the sliceResolver

MaxTagLen == 3

\* The characters the scans look for; a backslash before anything but a
\* delimiter is an ordinary character.
ScanAlphabet == {Comma, Quote, CloseBracket, Backslash}

ScanPrefixes ==
    { <<>>, <<"s", "=">>, <<"s", "=", "'">>, <<"l", "=">>, <<"l", "=", "[">>,
      <<"l", "=", "[", "'">> }

ScanTags ==
    {p \o s : p \in ScanPrefixes, s \in UNION {[1..n -> ScanAlphabet] : n \in 0..MaxTagLen}}

ScanTypes == {StructA, IntType}

InitScan ==
    /\ plan \in {NewFieldTagCache(StructType("Opts")), NewFieldTagCache(StructType("Named"))}
    /\ typeToTags = EmptyMap
    /\ structs \in {[n \in {"A", "B"} |-> IF n = "A" THEN a ELSE DeclB] :
                        a \in StructsOver(ScanTags, 1)}
    /\ last = Call("none", BasicType("invalid"), NilTags, FALSE, NilError, FALSE, NoRun,
                   FALSE)
    /\ first = NoFirst
    /\ pc = "start"
    /\ local = <<>>
    /\ inMap = {}
    /\ fatal = FALSE

Goto(p, l) ==
    /\ pc' = p
    /\ local' = l
    /\ UNCHANGED <<plan, typeToTags, structs, last, first, inMap, fatal>>

\* The return of Add: the store of line 345 when the error is nil.
Return(res) ==
    /\ pc' = "done"
    /\ local' = [local EXCEPT !.acc = res]
    /\ typeToTags' = AddStore(typeToTags, res)
    /\ last' = Call("Add", local.rType, NilTags, FALSE, res.err, TRUE, res, FALSE)
    /\ UNCHANGED <<plan, structs, first, inMap, fatal>>

\* A return of err from within the loop over the entries of a field, keys
\* being the keys the entry has been looked up under.
Fail(keys, err) ==
    Return([local.acc EXCEPT !.err = err,
                             !.keys = Append(local.acc.keys, local.st.keys \o keys),
                             !.dropped = local.st.dropped])

\* Lines 234-249.
ScanStart(rType) ==
    /\ pc = "start"
    /\ pc' = IF Underlying(rType).Kind # "struct" THEN "done" ELSE "fields"
    /\ local' = [rType |-> rType,
                 acc |-> AddUnstored(IF Underlying(rType).Kind # "struct"
                                     THEN NonStructError ELSE NilError, Underlying(rType)),
                 i |-> 0, n |-> 0, st |-> <<>>, tag |-> <<>>, key |-> <<>>,
                 valueStr |-> <<>>, list |-> <<>>, elems |-> <<>>, elem |-> <<>>]
    /\ last' = IF Underlying(rType).Kind # "struct"
               THEN Call("Add", rType, NilTags, FALSE, NonStructError, TRUE,
                         AddUnstored(NonStructError, Underlying(rType)), FALSE)
               ELSE last
    /\ UNCHANGED <<plan, typeToTags, structs, first, inMap, fatal>>

\* Lines 250-263: the head of the loop over the fields.
FieldStep ==
    /\ pc = "fields"
    /\ LET fields == structs[local.acc.rType.Name]
       IN  IF local.i >= Len(fields) THEN Goto("check", local)
           ELSE IF fields[local.i + 1].PkgPath # "" \/ fields[local.i + 1].Anonymous
           THEN Goto("fields", [local EXCEPT !.i = local.i + 1])
           ELSE Goto("entry",
                    [local EXCEPT
                        !.n = 0,
                        !.tag = fields[local.i + 1].Tag,
                        !.st = [value |-> NewValue(plan),
                                requiredTags |-> local.acc.requiredTags,
                                keys |-> <<>>, dropped |-> local.acc.dropped,
                                err |-> NilError]])

\* Lines 328-329: the record of the field is appended.
FieldEnd ==
    Goto("fields",
        [local EXCEPT
            !.i = local.i + 1,
            !.acc = [local.acc EXCEPT
                        !.fieldTags = Append(local.acc.fieldTags,
                            [FieldName |-> structs[local.acc.rType.Name][local.i + 1].Name,
                             FieldIndex |-> local.i, Value |-> local.st.value]),
                        !.requiredTags = local.st.requiredTags,
                        !.keys = Append(local.acc.keys, local.st.keys),
                        !.dropped = local.st.dropped]])

\* Lines 264-301 up to the scan of the value: kv is the match of
\* keyValueRegex and rest the text after the key.
EntryBegun(kv, rest) ==
    IF ~kv.matched \/ ~(kv.valueEnd > 0) THEN FieldEnd
    ELSE IF rest[1] = OpenBracket
    THEN Goto("bracket",
             [local EXCEPT !.key = IF kv.keyEnd > 0
                                   THEN Slice(local.tag, kv.keyStart, kv.keyEnd) ELSE <<>>,
                           !.tag = SliceFrom(rest, 1), !.valueStr = <<>>])
    ELSE IF rest[1] = Quote
    THEN Goto("quote",
             [local EXCEPT !.key = IF kv.keyEnd > 0
                                   THEN Slice(local.tag, kv.keyStart, kv.keyEnd) ELSE <<>>,
                           !.tag = SliceFrom(rest, 1), !.valueStr = <<>>])
    ELSE Goto("resolve",
             [local EXCEPT !.key = IF kv.keyEnd > 0
                                   THEN Slice(local.tag, kv.keyStart, kv.keyEnd) ELSE <<>>,
                           !.tag = getNextTagValue(rest).tag,
                           !.valueStr = getNextTagValue(rest).valueStr])

EntryStep ==
    /\ pc = "entry"
    /\ EntryBegun(keyValueRegex(local.tag),
           IF keyValueRegex(local.tag).matched
           THEN Slice(local.tag, keyValueRegex(local.tag).valueStart,
                      keyValueRegex(local.tag).valueEnd)
           ELSE <<>>)

\* Lines 309-322: r is what the resolver of the option returned.
Resolved(opt, key, r) ==
    IF r.err # NilError
    THEN IF ReturnsError(opt) THEN Fail(<<key>>, r.err)
         ELSE Goto("entry", [local EXCEPT !.n = 1,
                                          !.st.keys = Append(@, key),
                                          !.st.dropped = Append(@, r.err)])
    ELSE IF ~CanConvert(r.v, OptionShape(plan.T.Name)[opt.FieldIndex + 1].Type)
    THEN Fail(<<key>>, CannotConvertError)
    ELSE Goto("entry",
             [local EXCEPT
                 !.n = 1,
                 !.st.keys = Append(@, key),
                 !.st.value[opt.FieldIndex] =
                     Convert(r.v, OptionShape(plan.T.Name)[opt.FieldIndex + 1].Type),
                 !.st.requiredTags = IF opt.Required THEN Append(@, opt.Name) ELSE @])

\* One iteration of the loop of lines 280-291 (c a bracket) or of lines
\* 206-217 (c a quote) over local.tag.
DelimStep(at, c) ==
    /\ pc = at
    /\ LET kv == UntilNextDelimiter(local.tag, c)
       IN  IF ~kv.matched
           THEN Fail(<<>>, MissingEndQuote)
           ELSE IF kv.groupEnd > kv.groupStart /\ local.tag[kv.groupEnd] = Backslash
           THEN Goto(at, [local EXCEPT
                             !.tag = SliceFrom(local.tag, kv.end),
                             !.valueStr = local.valueStr
                                 \o Slice(local.tag, kv.groupStart, kv.groupEnd - 1)
                                 \o <<c>>])
           ELSE Goto("resolve",
                    [local EXCEPT
                        !.tag = SliceFrom(local.tag, kv.end),
                        !.valueStr = local.valueStr
                            \o Slice(local.tag, kv.groupStart, kv.groupEnd)])

\* Lines 302-308: the key of the entry and the call of its resolver; the
\* loop of a sliceResolver is entered with the tag of lines 64-71.
ResolveStep ==
    /\ pc = "resolve"
    /\ LET key == EffectiveKey(plan, local.n, local.key, local.valueStr)
       IN  IF key \notin DOMAIN plan.structTagMap
           THEN Goto("entry", [local EXCEPT !.n = 1, !.key = key,
                                            !.st.keys = Append(@, key)])
           ELSE IF plan.structTagMap[key].Resolver.res = "sliceResolver"
           THEN Goto("list", [local EXCEPT !.key = key,
                                           !.list = SlicePrepare(local.valueStr),
                                           !.elems = <<>>])
           ELSE Resolved(plan.structTagMap[key], key,
                    UnmarshalTagOption(plan.structTagMap[key].Resolver,
                        structs[local.acc.rType.Name][local.i + 1], local.valueStr))

\* The element valueStr of the list has been scanned and rest is the text
\* after it: lines 81-85 of resolvers.go.
ElemScanned(opt, rest, valueStr, val) ==
    IF val.err # NilError
    THEN Resolved(opt, local.key, [v |-> InvalidValue, err |-> val.err])
    ELSE Goto("list", [local EXCEPT !.list = rest, !.elems = Append(@, val.v)])

\* One iteration of the loop of lines 73-86 of resolvers.go, t1 being the
\* list after line 76.
ListStep ==
    /\ pc = "list"
    /\ LET opt == plan.structTagMap[local.key]
           t1 == IF local.list # EmptyTag /\ local.list[1] = Comma
                 THEN SliceFrom(local.list, 1) ELSE local.list
       IN  IF local.list = EmptyTag
           THEN Resolved(opt, local.key, [v |-> SliceValue(local.elems), err |-> NilError])
           ELSE IF t1 # EmptyTag /\ t1[1] = Quote
           THEN Goto("listquote", [local EXCEPT !.list = SliceFrom(t1, 1), !.elem = <<>>])
           ELSE ElemScanned(opt, getNextTagValue(t1).tag, getNextTagValue(t1).valueStr,
                    UnmarshalTagOption(opt.Resolver.resolver,
                        structs[local.acc.rType.Name][local.i + 1],
                        getNextTagValue(t1).valueStr))

\* One iteration of the loop of lines 206-217 over an element of the list.
ListQuoteStep ==
    /\ pc = "listquote"
    /\ LET opt == plan.structTagMap[local.key]
           kv == UntilNextDelimiter(local.list, Quote)
       IN  IF ~kv.matched
           THEN Resolved(opt, local.key, [v |-> InvalidValue, err |-> MissingEndQuote])
           ELSE IF kv.groupEnd > kv.groupStart /\ local.list[kv.groupEnd] = Backslash
           THEN Goto("listquote",
                    [local EXCEPT
                        !.list = SliceFrom(local.list, kv.end),
                        !.elem = local.elem
                            \o Slice(local.list, kv.groupStart, kv.groupEnd - 1)
                            \o <<Quote>>])
           ELSE ElemScanned(opt, SliceFrom(local.list, kv.end),
                    local.elem \o Slice(local.list, kv.groupStart, kv.groupEnd),
                    UnmarshalTagOption(opt.Resolver.resolver,
                        structs[local.acc.rType.Name][local.i + 1],
                        local.elem \o Slice(local.list, kv.groupStart, kv.groupEnd)))

\* Lines 331-346.
CheckStep ==
    /\ pc = "check"
    /\ Return(CheckRequired(plan, local.acc))

NextScan ==
    \/ \E rType \in ScanTypes : ScanStart(rType)
    \/ FieldStep
    \/ EntryStep
    \/ DelimStep("bracket", CloseBracket)
    \/ DelimStep("quote", Quote)
    \/ ResolveStep
    \/ ListStep
    \/ ListQuoteStep
    \/ CheckStep

SpecScan == InitScan /\ [][NextScan]_vars

\* A call that has begun goes on to its next step.
FairScan == SpecScan /\ WF_vars(NextScan)

\* A step of a loop that stays in the loop shortens the text left to it: tag
\* for the loop over the entries with its scans of a quoted or bracketed
\* value, list for the loop of the sliceResolver, which leaves tag alone.
Shortens ==
    /\ (pc \in {"entry", "bracket", "quote"} /\ pc' \notin {"fields", "done"})
           => Len(local'.tag) < Len(local.tag)
    /\ (pc \in {"list", "listquote"} /\ pc' \in {"list", "listquote"})
           => Len(local'.list) < Len(local.list)
    /\ (pc \in {"resolve", "list", "listquote"} /\ pc' # "done")
           => local'.tag = local.tag

\* C20: Add ends, with nil or with an error, for every subject struct and
\* every tag: each iteration of the loop over the entries, of the scans of a
\* quoted or bracketed value and of the loop over a list either leaves the
\* loop or shortens the text that remains.
C20_AddTerminates == [][Shortens]_vars /\ <>(pc = "done")

\* Add has returned nil for a field whose quoted value has an escaped quote:
\* the scan of the value has gone round twice.
C20_Witness ==
    /\ pc = "done"
    /\ last.op = "Add"
    /\ last.err = NilError
    /\ structs["A"][1].Tag = <<"s", "=", "'", "\\", "'", "'">>
    /\ Len(last.run.fieldTags) = 1
    /\ last.run.fieldTags[1].Value[0] = StringValue(<<"'">>)

====
